---- MODULE Spec2Model ----
(***************************************************************************)
(* Model of the sequential downloader: main (src/src/main.rs) iterates a   *)
(* list of file names and calls download_file (src/src/download.rs) once   *)
(* per name.  download_file GETs <url>/<filename>, panics on a transport   *)
(* error or an HTTP error status, creates the directory "downloads",       *)
(* creates/truncates downloads/<filename> and copies the body into it.     *)
(*                                                                         *)
(* Paths and file names are sequences of path components, file contents    *)
(* and response bodies are sequences of bytes.  The remote resources and   *)
(* the health of the local environment are inputs of a process run.        *)
(***************************************************************************)
EXTENDS Integers, Sequences, FiniteSets, TLC

\* ---------------------------------------------------------------- bounds
MaxBody == 1      \* longest response body explored (bytes)

Bytes == {1, 2}

\* File names the list is drawn from: a plain name and one with a separator.
Filenames == {<<"a">>, <<"todos", "1">>}

\* ----------------------------------------------------------- pure helpers
Range(s) == {s[k] : k \in 1..Len(s)}

SeqsUpTo(S, n) == UNION {[1..k -> S] : k \in 0..n}

Bodies == SeqsUpTo(Bytes, MaxBody)

\* vec![...] of main: the lists explored are non-empty and, like the literal
\* list of main, hold no name twice.
FilenameLists ==
    {l \in SeqsUpTo(Filenames, Cardinality(Filenames)) :
        /\ Len(l) >= 1
        /\ \A j, k \in 1..Len(l) : j # k => l[j] # l[k]}

\* What a GET of one resource yields: a transport failure, or a response
\* with a status and a body.
Responses ==
    {[kind |-> "transport", status |-> 0, body |-> <<>>]}
    \cup {[kind |-> "http", status |-> s, body |-> <<>>] : s \in {404, 500}}
    \cup {[kind |-> "http", status |-> 200, body |-> b] : b \in Bodies}

\* Path::new("downloads")
download_path == <<"downloads">>

\* download_path.join(filename): the file name is used verbatim, with its
\* sub-directories, below "downloads".
local_file_path(filename) == download_path \o filename

Parent(path) == SubSeq(path, 1, Len(path) - 1)

\* std::fs::create_dir_all(p): p and every missing ancestor of p.
create_dir_all(ds, p) == ds \cup {SubSeq(p, 1, k) : k \in 1..Len(p)}

\* Variant: only 5xx counts as an error.
IsServerErrorOnly(s) == s >= 500 /\ s <= 599

\* Response::error_for_status: 4xx and 5xx are errors.
IsErrorStatus(s) == s >= 400 /\ s <= 599

\* Variant: the file is opened without truncation, new bytes are appended.
CreatedContentKept(old) == old

\* File::create opens write-only, creating the file or truncating it.
CreatedContent(old) == <<>>

\* Variant: the copy stops one byte short of the end of the body.
CopiedBytesShort(body) == SubSeq(body, 1, Len(body) - 1)

\* std::io::copy reads the response to its end and writes every byte.
CopiedBytes(body) == body

\* Variant: a failed copy removes the partial file.
AfterFailedCopyRemoved(fs, path, written) ==
    [p \in DOMAIN fs \ {path} |-> fs[p]]

\* The bytes a copy that failed part-way has already written stay in the
\* file: the Err arm of the copy only panics.
AfterFailedCopy(fs, path, written) == [fs EXCEPT ![path] = @ \o written]

\* The for loop of main hands the names to download_file in list order.
NextFilename(l, k) == l[k]

\* Variant: the handles outlive the call.
Leaked(handles, k) == handles

\* At the end of download_file its locals (the response, the file) are dropped.
Dropped(handles, k) == handles \ {k}

NoPanic == [kind |-> "none", file |-> <<>>, err |-> "none"]

\* ------------------------------------------------------------------ state
VARIABLES
    list,           \* filename_list of main
    remote,         \* file name -> what a GET of <URL>/<name> yields in this run
    envFaults,      \* whether the environment may fail local I/O in this run
    run,            \* number of the current process run
    pc,             \* position of the single thread
    i,              \* position of the for loop in list (1-based)
    filename,       \* argument of the download_file call in progress
    dirs,           \* directories that exist (paths relative to the cwd)
    files,          \* path -> content of the regular files that exist
    openResponses,  \* loop positions whose response stream is open
    openFiles,      \* loop positions whose local file handle is open
    out,            \* lines printed to standard output by this run
    panic,          \* the panic that ended this run, NoPanic if none
    fetched,        \* names download_file was called with in this run, in order
    callFs,         \* filesystem when the current download_file call began
    runFs,          \* filesystem when the current run began
    prev            \* how the previous run ended, and whether the remote
                    \* resources of this run are those of the previous run

vars == <<list, remote, envFaults, run, pc, i, filename, dirs, files,
          openResponses, openFiles, out, panic, fetched, callFs, runFs, prev>>

inputs == <<list, remote, envFaults, run, runFs, prev>>

Fs == [dirs |-> dirs, files |-> files]

EmptyFiles == [p \in {} |-> <<>>]

\* Directory trees the process may be started in: an empty working
\* directory, or one where downloads/todos was made by hand.
InitialDirs == {{}, {<<"downloads">>, <<"downloads", "todos">>}}

NoPrev == [outcome |-> "none", sameRemote |-> FALSE]

Init ==
    /\ list \in FilenameLists
    /\ remote \in [Range(list) -> Responses]
    /\ envFaults \in BOOLEAN
    /\ run = 1
    /\ pc = "loop"
    /\ i = 1
    /\ filename = <<>>
    /\ dirs \in InitialDirs
    /\ files = EmptyFiles
    /\ openResponses = {}
    /\ openFiles = {}
    /\ out = <<>>
    /\ panic = NoPanic
    /\ fetched = <<>>
    /\ callFs = [dirs |-> dirs, files |-> files]
    /\ runFs = [dirs |-> dirs, files |-> files]
    /\ prev = NoPrev

\* Variant: the failure is reported and download_file returns to the loop.
PanicContinue(kind, err) ==
    /\ pc' = "return"
    /\ panic' = panic
    /\ openResponses' = openResponses
    /\ openFiles' = openFiles
    /\ UNCHANGED <<i, out>>

\* Variant: the failed request is sent again.
PanicRetry(kind, err) ==
    /\ pc' = "get"
    /\ panic' = [kind |-> kind, file |-> filename, err |-> err]
    /\ openResponses' = {}
    /\ openFiles' = {}
    /\ UNCHANGED <<i, out>>

\* panic!: the process unwinds out of download_file and main and exits
\* abnormally; every open handle is closed on the way.
Panic(kind, err) ==
    /\ pc' = "aborted"
    /\ panic' = [kind |-> kind, file |-> filename, err |-> err]
    /\ openResponses' = {}
    /\ openFiles' = {}
    /\ UNCHANGED <<i, out>>

\* main: one iteration of the for loop calls download_file(URL, filename).
CallDownloadFile ==
    /\ pc = "loop"
    /\ i <= Len(list)
    /\ filename' = NextFilename(list, i)
    /\ fetched' = Append(fetched, filename')
    /\ callFs' = Fs
    /\ pc' = "get"
    /\ UNCHANGED <<inputs, i, dirs, files, openResponses, openFiles, out, panic>>

\* Variant: the directory is created before the request is sent.
GetAfterCreateDir ==
    /\ pc = "get"
    /\ dirs' = create_dir_all(dirs, download_path)
    /\ IF remote[filename].kind = "transport"
       THEN Panic("transport", "request")
       ELSE /\ openResponses' = openResponses \cup {i}
            /\ pc' = "status"
            /\ UNCHANGED <<i, out, panic, openFiles>>
    /\ UNCHANGED <<inputs, filename, files, fetched, callFs>>

\* download_file: reqwest::blocking::get and the match on its result.
Get ==
    /\ pc = "get"
    /\ IF remote[filename].kind = "transport"
       THEN Panic("transport", "request")
       ELSE /\ openResponses' = openResponses \cup {i}
            /\ pc' = "status"
            /\ UNCHANGED <<i, out, panic, openFiles>>
    /\ UNCHANGED <<inputs, filename, dirs, files, fetched, callFs>>

\* download_file: error_for_status and the match on its result.
CheckStatus ==
    /\ pc = "status"
    /\ IF IsErrorStatus(remote[filename].status)
       THEN Panic(IF remote[filename].status = 404 THEN "notfound" ELSE "http",
                  "status")
       ELSE /\ pc' = "mkdir"
            /\ UNCHANGED <<i, out, panic, openResponses, openFiles>>
    /\ UNCHANGED <<inputs, filename, dirs, files, fetched, callFs>>

\* download_file: create_dir_all("downloads").
CreateDir ==
    /\ pc = "mkdir"
    /\ \/ /\ envFaults
          /\ Panic("mkdir", "Other")
          /\ UNCHANGED dirs
       \/ /\ dirs' = create_dir_all(dirs, download_path)
          /\ pc' = "create"
          /\ UNCHANGED <<i, out, panic, openResponses, openFiles>>
    /\ UNCHANGED <<inputs, filename, files, fetched, callFs>>

\* download_file: File::create(downloads/<filename>).  It fails when the
\* directory that is to hold the file does not exist.
CreateFile ==
    /\ pc = "create"
    /\ LET path == local_file_path(filename) IN
       IF Parent(path) \notin dirs
       THEN /\ Panic("create", "NotFound")
            /\ UNCHANGED files
       ELSE \/ /\ envFaults
               /\ Panic("create", "Other")
               /\ UNCHANGED files
            \/ /\ files' = [p \in DOMAIN files \cup {path} |->
                               IF p = path
                               THEN CreatedContent(IF path \in DOMAIN files
                                                   THEN files[path] ELSE <<>>)
                               ELSE files[p]]
               /\ openFiles' = openFiles \cup {i}
               /\ pc' = "copy"
               /\ UNCHANGED <<i, out, panic, openResponses>>
    /\ UNCHANGED <<inputs, filename, dirs, fetched, callFs>>

\* download_file: std::io::copy(response, file) and the match on its result.
Copy ==
    /\ pc = "copy"
    /\ LET path == local_file_path(filename)
           body == remote[filename].body IN
       \/ /\ files' = [files EXCEPT ![path] = @ \o CopiedBytes(body)]
          /\ out' = Append(out, [kind |-> "downloaded", file |-> filename,
                                  bytes |-> Len(CopiedBytes(body))])
          /\ pc' = "return"
          /\ UNCHANGED <<i, panic, openResponses, openFiles>>
       \/ /\ envFaults
          /\ \E k \in 0..Len(body) :
                files' = AfterFailedCopy(files, path, SubSeq(body, 1, k))
          /\ Panic("copy", "Other")
    /\ UNCHANGED <<inputs, filename, dirs, fetched, callFs>>

\* download_file returns: its locals are dropped and the loop advances.
Return ==
    /\ pc = "return"
    /\ openResponses' = Dropped(openResponses, i)
    /\ openFiles' = Dropped(openFiles, i)
    /\ i' = i + 1
    /\ pc' = "loop"
    /\ UNCHANGED <<inputs, filename, dirs, files, out, panic, fetched, callFs>>

\* main: the loop is over; the elapsed time is printed and main returns.
Finish ==
    /\ pc = "loop"
    /\ i > Len(list)
    /\ out' = Append(out, [kind |-> "summary", file |-> <<>>, bytes |-> 0])
    /\ pc' = "done"
    /\ UNCHANGED <<inputs, i, filename, dirs, files, openResponses, openFiles,
                   panic, fetched, callFs>>

\* The program is run again in the same working directory: the compiled-in
\* list is the same, the remote resources and the environment may differ.
Rerun ==
    /\ pc \in {"done", "aborted"}
    /\ run = 1
    /\ run' = run + 1
    /\ remote' \in [Range(list) -> Responses]
    /\ envFaults' \in BOOLEAN
    /\ prev' = [outcome |-> pc, sameRemote |-> (remote' = remote)]
    /\ runFs' = Fs
    /\ callFs' = Fs
    /\ pc' = "loop"
    /\ i' = 1
    /\ filename' = <<>>
    /\ out' = <<>>
    /\ panic' = NoPanic
    /\ fetched' = <<>>
    /\ openResponses' = {}
    /\ openFiles' = {}
    /\ UNCHANGED <<list, dirs, files>>

Next ==
    \/ CallDownloadFile
    \/ Get
    \/ CheckStatus
    \/ CreateDir
    \/ CreateFile
    \/ Copy
    \/ Return
    \/ Finish
    \/ Rerun

Spec == Init /\ [][Next]_vars

TypeOK ==
    /\ list \in FilenameLists
    /\ remote \in [Range(list) -> Responses]
    /\ pc \in {"loop", "get", "status", "mkdir", "create", "copy", "return",
                "done", "aborted"}
    /\ i \in 1..(Len(list) + 1)
    /\ run \in {1, 2}

\* ------------------------------------------------- vocabulary of the claims
\* Local path of the k-th name of the list.
PathOf(k) == local_file_path(list[k])

\* The download_file call of position k has returned successfully.
Returned(k) == k < i \/ (k = i /\ pc = "return")

\* The download_file call of position k is the current (or last) call.
InCall(k) == i = k /\ Len(fetched) = k

IsPrefix(s, t) == Len(s) <= Len(t) /\ s = SubSeq(t, 1, Len(s))

\* What is at path p is the same in the filesystems f and g.
SameAt(p, f, g) ==
    /\ (p \in f.dirs) = (p \in g.dirs)
    /\ (p \in DOMAIN f.files) = (p \in DOMAIN g.files)
    /\ p \in DOMAIN f.files => f.files[p] = g.files[p]

AllTransport == \A f \in Range(list) : remote[f].kind = "transport"

AllOk == \A f \in Range(list) : remote[f].status = 200

DownloadedLines == {k \in 1..Len(out) : out[k].kind = "downloaded"}

SummaryPrinted == \E k \in 1..Len(out) : out[k].kind = "summary"

\* ------------------------------------------------------------------ claims

\* C1: when the resource of position k answers 404, the call of position k
\* never gets past the status check: the run is aborted by the "not found"
\* panic of that call, what is at downloads/<name k> is what was there when
\* the call began (nothing created, nothing truncated), and the file of
\* every earlier position is on disk with the body its fetch copied.
C1_NotFoundAbortsBeforeWrite ==
    \A k \in 1..Len(list) :
        (InCall(k) /\ remote[list[k]].status = 404 /\ pc \notin {"get", "status"})
        => /\ pc = "aborted"
           /\ panic.kind = "notfound"
           /\ panic.file = list[k]
           /\ SameAt(PathOf(k), Fs, callFs)
           /\ \A j \in 1..(k - 1) :
                /\ PathOf(j) \in DOMAIN files
                /\ files[PathOf(j)] = remote[list[j]].body

\* A 404 at the second position, over a file an earlier run left there,
\* after the first position wrote a non-empty file.
C1_Witness ==
    /\ pc = "aborted"
    /\ panic.kind = "notfound"
    /\ i = 2
    /\ PathOf(2) \in DOMAIN files
    /\ files[PathOf(2)] # <<>>
    /\ files[PathOf(1)] # <<>>

\* C2: when every GET fails at transport level the run aborts in the first
\* download_file call: the loop never leaves position 1, no second call is
\* made, and the filesystem is the one the run started with.
C2_UnreachableAbortsFirst ==
    AllTransport =>
        /\ i = 1
        /\ Len(fetched) <= 1
        /\ pc \in {"loop", "get", "aborted"}
        /\ pc = "aborted" => (panic.kind = "transport" /\ panic.file = list[1])
        /\ Fs = runFs
        /\ out = <<>>

C2_Witness ==
    /\ AllTransport
    /\ Len(list) = 2
    /\ pc = "aborted"
    /\ panic.kind = "transport"

\* C3: when all N resources answer with a success status (and the
\* environment fails no local I/O), the run does not abort, and once it is
\* DONE there are N "downloaded" lines and a file at downloads/<name> for
\* every name of the list.
C3_AllReachableRunCompletes ==
    (AllOk /\ ~envFaults) =>
        /\ pc # "aborted"
        /\ pc = "done" =>
             /\ Cardinality(DownloadedLines) = Len(list)
             /\ \A k \in 1..Len(list) : PathOf(k) \in DOMAIN files

C5_RerunOverwrites ==
    (run = 2 /\ prev.outcome = "done" /\ pc = "done") =>
        /\ \A k \in 1..Len(list) :
             /\ PathOf(k) \in DOMAIN files
             /\ files[PathOf(k)] = remote[list[k]].body
        /\ prev.sameRemote => Fs = runFs

\* The second run replaced a non-empty file by a different non-empty body.
C5_Witness ==
    /\ run = 2
    /\ prev.outcome = "done"
    /\ pc = "done"
    /\ \E k \in 1..Len(list) :
         /\ runFs.files[PathOf(k)] # <<>>
         /\ files[PathOf(k)] # <<>>
         /\ files[PathOf(k)] # runFs.files[PathOf(k)]

\* C6: a failed download_file call aborts the run for good.  A panic has
\* been raised exactly when the run is aborted; an aborted process takes no
\* further step (only a new run of the program follows); the summary is
\* printed only in DONE; and DONE is reached only with no panic and one
\* "downloaded" line per name, in list order.
C6_AbortIsFinal ==
    /\ [](panic.kind # "none" <=> pc = "aborted")
    /\ [](pc = "aborted" => ~SummaryPrinted /\ Len(fetched) = i)
    /\ [](SummaryPrinted => pc = "done")
    /\ [](pc = "done" =>
            /\ Len(out) = Len(list) + 1
            /\ \A k \in 1..Len(list) :
                 out[k].kind = "downloaded" /\ out[k].file = list[k])
    /\ [][pc = "aborted" => run' = run + 1]_vars

\* The first call succeeded and the second one failed.
C6_Witness ==
    /\ pc = "aborted"
    /\ i = 2
    /\ Len(list) = 2
    /\ Len(out) = 1

\* C7: a name with a path separator whose resource answers with a success
\* status is fetched successfully (the environment failing no local I/O):
\* the call of that name does not abort the run.
C7_SubdirectoriesCreated ==
    \A k \in 1..Len(list) :
        (InCall(k) /\ Len(list[k]) > 1 /\ remote[list[k]].status = 200
            /\ ~envFaults)
        => pc # "aborted"

\* C8: the calls are made in list order and never overlap: at most one
\* response stream and one file handle are open, both belong to the current
\* position, none is open between two calls, and the names fetched so far
\* are the first names of the list.
C8_SequentialInOrder ==
    /\ Cardinality(openResponses) <= 1
    /\ Cardinality(openFiles) <= 1
    /\ openResponses \subseteq {i}
    /\ openFiles \subseteq {i}
    /\ pc \in {"loop", "get", "done", "aborted"} =>
         (openResponses = {} /\ openFiles = {})
    /\ Len(fetched) <= Len(list)
    /\ fetched = SubSeq(list, 1, Len(fetched))
    /\ Len(fetched) = (IF pc = "loop" \/ pc = "done" THEN i - 1 ELSE i)

\* The second call holds its response and its file open.
C8_Witness ==
    /\ i = 2
    /\ pc = "copy"
    /\ openResponses = {2}
    /\ openFiles = {2}

\* C9: when the copy fails the run is aborted and downloads/<name> is still
\* on disk, holding a prefix of the remote body.
C9_FailedCopyLeavesPrefix ==
    (pc = "aborted" /\ panic.kind = "copy") =>
        /\ local_file_path(panic.file) \in DOMAIN files
        /\ IsPrefix(files[local_file_path(panic.file)], remote[panic.file].body)

\* An aborted run whose file is strictly shorter than the remote body.
C9_Witness ==
    /\ pc = "aborted"
    /\ panic.kind = "copy"
    /\ local_file_path(panic.file) \in DOMAIN files
    /\ Len(files[local_file_path(panic.file)]) < Len(remote[panic.file].body)

\* C10: a call that fails with a transport failure or an HTTP error status
\* leaves directories and files exactly as they were when the call began.
C10_FailedRequestLeavesFs ==
    (pc = "aborted" /\ panic.kind \in {"transport", "notfound", "http"}) =>
        Fs = callFs

\* An HTTP error over a non-empty file of an earlier run, which is kept.
C10_Witness ==
    /\ pc = "aborted"
    /\ panic.kind = "http"
    /\ PathOf(i) \in DOMAIN files
    /\ files[PathOf(i)] # <<>>
    /\ files[PathOf(i)] # remote[list[i]].body

====
